---- MODULE Spec2Model ----
(***************************************************************************)
(* The Bluetooth Classic hook (src/useBluetoothClassic.ts, gated variant,  *)
(* lines 59-388) driven by the application component (src/App.tsx).        *)
(*                                                                         *)
(* React state is modelled at the granularity JavaScript gives it: the     *)
(* code between two awaits on a native promise runs to completion, so one  *)
(* action is one such segment, with every setState of the segment applied  *)
(* in order.  A callback reads the state captured by the render that       *)
(* created it: an invocation stores the captured permissionsGranted (pg)   *)
(* and the captured connectedDevice (dev) at the moment it starts.         *)
(* Message timestamps are left out: no code reads them.                    *)
(***************************************************************************)
EXTENDS Integers, Sequences, FiniteSets, TLC

\* ------------------------------------------------------------- bounds
\* Longest message log explored: a step that would append beyond it waits.
MaxLog == 4
\* Longest list the adapter returns for bonded devices or discovery.
MaxList == 2
\* The work from outside explored after mount: a call of sendData, disconnect
\* or clearMessages and an inbound data event count 1, a call of a gated method
\* (findAndConnectMP4, pairDevice, connectToDevice) counts 2.
MaxCalls == 3

\* ---------------------------------------------------------- constants
\* Platform.Version from which the three Bluetooth capabilities are requested.
BluetoothApiLevel == 31

Null == "null"

\* Device ids known to the adapter, and the name each reports: one with the
\* prefix, one with the prefix in lower case, one without a name.
Devices == {"d1", "d2", "d3"}

\* The devices in range where the selection of the target is examined: a
\* second device named with the prefix besides Devices.
Nearby == Devices \cup {"d4"}

NameOf(d) ==
    CASE d = "d1" -> <<"M", "P", "4", "-", "1">>
      [] d = "d2" -> <<"m", "p", "4", "-", "1">>
      [] d = "d4" -> <<"M", "P", "4", "-", "2">>
      [] OTHER    -> <<>>

\* The prefix literal of device.name.startsWith('MP4').
Prefix == <<"M", "P", "4">>

\* String.prototype.startsWith.
StartsWith(name, prefix) ==
    /\ Len(name) >= Len(prefix)
    /\ \A k \in 1..Len(prefix) : name[k] = prefix[k]

\* The predicate handed to Array.prototype.find: device.name && startsWith.
IsMP4(d) == NameOf(d) # <<>> /\ StartsWith(NameOf(d), Prefix)

\* find returning the last element satisfying the predicate.
FindMP4_Last(list) ==
    LET hits == {k \in 1..Len(list) : IsMP4(list[k])}
    IN  IF hits = {} THEN Null
        ELSE list[CHOOSE k \in hits : \A j \in hits : k >= j]

\* Array.prototype.find: the first element satisfying the predicate, or Null.
FindMP4(list) ==
    LET hits == {k \in 1..Len(list) : IsMP4(list[k])}
    IN  IF hits = {} THEN Null
        ELSE list[CHOOSE k \in hits : \A j \in hits : k <= j]

\* The lists an adapter call may resolve with.
DeviceLists == UNION {[1..n -> Devices] : n \in 0..MaxList}
NearbyLists == UNION {[1..n -> Nearby] : n \in 0..MaxList}

Platforms == {<<"ios", 0>>, <<"android", 30>>, <<"android", 31>>}

Caps == {"BLUETOOTH_SCAN", "BLUETOOTH_CONNECT", "ACCESS_FINE_LOCATION"}

\* What a PermissionsAndroid request may answer: it throws, or it grants a
\* subset of the capabilities asked for.
PermissionAnswers(p) ==
    LET asked == IF p[2] < BluetoothApiLevel THEN {"ACCESS_FINE_LOCATION"} ELSE Caps
    IN  {[thrown |-> TRUE, granted |-> {}]}
        \cup {[thrown |-> FALSE, granted |-> g] : g \in SUBSET asked}

Data == {"cmd"}

\* The text of an inbound data event (data.data).
Inbound == {"rx1", "rx2"}

\* What an answer of the adapter was, as the history of an invocation records
\* it: whether a list held a device named with the prefix, and how much of the
\* asked capabilities a permission request granted.
Named(list) ==
    IF \E k \in 1..Len(list) :
          Len(NameOf(list[k])) >= 3 /\ SubSeq(NameOf(list[k]), 1, 3) = <<"M", "P", "4">>
    THEN "MP4" ELSE "none"

Grant(p, a) ==
    LET asked == IF p[2] < BluetoothApiLevel THEN {"ACCESS_FINE_LOCATION"} ELSE Caps
    IN  IF a.thrown THEN "grant:throw"
        ELSE IF a.granted = asked THEN "grant:all"
        ELSE IF a.granted = {} THEN "grant:none"
        ELSE "grant:partial"

\* --------------------------------------------------------------- errors
NoError == "none"
\* A thrown value: an Error carrying a message, or a value that is no Error.
Err(m) == [isError |-> TRUE, message |-> m]
NonError == [isError |-> FALSE, message |-> ""]
Nothing == [isError |-> FALSE, message |-> "nothing"]

\* What a failing adapter call rejects with.
Rejections(call) == {Err(call), NonError}

\* How the history of an invocation records a rejection of the adapter.
Rejected(thrown) == IF thrown.isError THEN "rejected:Error" ELSE "rejected:value"

\* err instanceof Error ? err.message : fallback
MessageOf(thrown, fallback) == IF thrown.isError THEN thrown.message ELSE fallback

PermPairError == Err("Se requieren permisos de Bluetooth para emparejar")
PermScanError == Err("Se requieren permisos de Bluetooth para buscar dispositivos")
PermConnectError == Err("Se requieren permisos de Bluetooth para conectar")
DisabledError == Err("Bluetooth no esta habilitado")
NotFoundError == Err("No se encontro ningun dispositivo MP4")
NoDeviceError == Err("No hay dispositivo conectado")

VARIABLES
    platform,            \* Platform.OS, Platform.Version
    permissionsGranted, connectedDevice, isScanning, isConnecting, isPairing,
    messages, error, mp4Device,          \* the hook's useState cells
    mountPerm,           \* the permission request of the mount effect
    ops,                 \* the gated invocations: findAndConnectMP4, pairDevice, connectToDevice
    snd,                 \* the sendData invocation
    dsc,                 \* the disconnect invocation
    sub,                 \* the handle the onDataReceived listener is installed on
    calls,               \* the work from outside so far (see MaxCalls)
    live,                \* the handles that hold a subscription not removed yet
    removedTwice,        \* whether remove() was called on a subscription already removed
    inbound              \* the data the listener was called with since the log was last emptied

vars == <<platform, permissionsGranted, connectedDevice, isScanning, isConnecting,
          isPairing, messages, error, mp4Device, mountPerm, ops, snd, dsc, sub, calls,
          live, removedTwice, inbound>>

\* The useState cells as one record, as a segment of code reads and writes them.
Hook ==
    [permissionsGranted |-> permissionsGranted, connectedDevice |-> connectedDevice,
     isScanning |-> isScanning, isConnecting |-> isConnecting, isPairing |-> isPairing,
     messages |-> messages, error |-> error, mp4Device |-> mp4Device]

\* The render that follows a segment: every cell takes its last written value.
Commit(h) ==
    /\ Len(h.messages) <= MaxLog
    /\ permissionsGranted' = h.permissionsGranted
    /\ connectedDevice' = h.connectedDevice
    /\ isScanning' = h.isScanning
    /\ isConnecting' = h.isConnecting
    /\ isPairing' = h.isPairing
    /\ messages' = h.messages
    /\ error' = h.error
    /\ mp4Device' = h.mp4Device

\* ---------------------------------------------------------- invocations
\* A gated invocation: which function was called (kind), where it is suspended
\* (pc), the permissionsGranted its closures captured (pg), its device (the
\* argument of pairDevice and connectToDevice, the local mp4 of
\* findAndConnectMP4), how it settled (ok, thrown) and, as history, the calls
\* it issued and the messages it appended, in order (trace), and the list its
\* last listing call resolved with, kept where the selection is examined (list).
Idle ==
    [kind |-> "none", pc |-> "idle", pg |-> FALSE, dev |-> Null,
     ok |-> FALSE, thrown |-> Nothing, trace |-> <<>>, list |-> <<>>]

Slots == {1, 2}

InFlight(s) == s.pc \notin {"idle", "done"}

Ev(r, e) == [r EXCEPT !.s.trace = Append(@, e)]

\* addMessage putting the new entry first.
addMessage_Prepend(msgs, type, content) == <<[type |-> type, content |-> content]>> \o msgs

\* addMessage: setMessages(prev => [...prev, {type, content, timestamp}]).
addMessage(msgs, type, content) == Append(msgs, [type |-> type, content |-> content])

\* addMessage('system', `${text} ${device.name}`) by a gated invocation.
System(r, text, d) ==
    Ev([r EXCEPT !.h.messages = addMessage(@, "system", <<text, NameOf(d)>>)], text)

Resolve(r) == [r EXCEPT !.s.pc = "done", !.s.ok = TRUE, !.s.thrown = Nothing]
Reject(r, thrown) == [r EXCEPT !.s.pc = "done", !.s.ok = FALSE, !.s.thrown = thrown]

\* requestBluetoothPermissions whose allGranted leaves ACCESS_FINE_LOCATION out.
requestBluetoothPermissions_TwoOfThree(h, p, a) ==
    IF p[1] # "android" THEN [h |-> h, ret |-> TRUE]
    ELSE IF a.thrown
    THEN [h |-> [h EXCEPT !.permissionsGranted = FALSE,
                          !.error = "Error al solicitar permisos"],
          ret |-> FALSE]
    ELSE IF p[2] < BluetoothApiLevel
    THEN LET isGranted == "ACCESS_FINE_LOCATION" \in a.granted
         IN  [h |-> [h EXCEPT !.permissionsGranted = isGranted], ret |-> isGranted]
    ELSE LET allGranted == /\ "BLUETOOTH_SCAN" \in a.granted
                           /\ "BLUETOOTH_CONNECT" \in a.granted
         IN  [h |-> [h EXCEPT !.permissionsGranted = allGranted,
                              !.error = IF allGranted THEN @
                                        ELSE "Se requieren permisos de Bluetooth para continuar"],
              ret |-> allGranted]

\* requestBluetoothPermissions taking the single-capability branch at the
\* threshold too (apiLevel <= 31).
requestBluetoothPermissions_OffByOne(h, p, a) ==
    IF p[1] # "android" THEN [h |-> h, ret |-> TRUE]
    ELSE IF a.thrown
    THEN [h |-> [h EXCEPT !.permissionsGranted = FALSE,
                          !.error = "Error al solicitar permisos"],
          ret |-> FALSE]
    ELSE LET isGranted == "ACCESS_FINE_LOCATION" \in a.granted
         IN  [h |-> [h EXCEPT !.permissionsGranted = isGranted], ret |-> isGranted]

\* requestBluetoothPermissions, from the answer of the permission request on.
requestBluetoothPermissions(h, p, a) ==
    IF p[1] # "android" THEN [h |-> h, ret |-> TRUE]
    ELSE IF a.thrown
    THEN [h |-> [h EXCEPT !.permissionsGranted = FALSE,
                          !.error = "Error al solicitar permisos"],
          ret |-> FALSE]
    ELSE IF p[2] < BluetoothApiLevel
    THEN LET isGranted == "ACCESS_FINE_LOCATION" \in a.granted
         IN  [h |-> [h EXCEPT !.permissionsGranted = isGranted], ret |-> isGranted]
    ELSE LET allGranted == /\ "BLUETOOTH_SCAN" \in a.granted
                           /\ "BLUETOOTH_CONNECT" \in a.granted
                           /\ "ACCESS_FINE_LOCATION" \in a.granted
         IN  [h |-> [h EXCEPT !.permissionsGranted = allGranted,
                              !.error = IF allGranted THEN @
                                        ELSE "Se requieren permisos de Bluetooth para continuar"],
              ret |-> allGranted]

\* findAndConnectMP4 without the finally that resets isScanning.
FacCatch_KeepScanning(r, thrown) ==
    Reject([r EXCEPT !.h.error = MessageOf(thrown, "Error desconocido al buscar MP4")], thrown)

\* ------------------------------------------------- findAndConnectMP4 exits
\* findAndConnectMP4 whose catch also writes the failure to the log.
FacCatch_LogsError(r, thrown) ==
    Reject(System([r EXCEPT !.h.error = MessageOf(thrown, "Error desconocido al buscar MP4"),
                            !.h.isScanning = FALSE], "Error", Null), thrown)

\* catch and finally of findAndConnectMP4.
FacCatch(r, thrown) ==
    Reject([r EXCEPT !.h.error = MessageOf(thrown, "Error desconocido al buscar MP4"),
                     !.h.isScanning = FALSE], thrown)

\* findAndConnectMP4 returning without the finally that resets isScanning.
FacReturn_KeepScanning(r) == Resolve(r)

\* return mp4, through finally.
FacReturn(r) == Resolve([r EXCEPT !.h.isScanning = FALSE])

\* ------------------------------------------------------- connectToDevice
\* connectToDevice without the finally that resets isConnecting.
ConnectCatch_KeepConnecting(r, thrown) ==
    LET r1 == [r EXCEPT !.h.error = MessageOf(thrown, "Error al conectar")]
    IN  IF r.s.kind = "fac" THEN FacCatch(r1, thrown) ELSE Reject(r1, thrown)

\* catch and finally of connectToDevice, then the rejection reaches the caller.
ConnectCatch(r, thrown) ==
    LET r1 == [r EXCEPT !.h.error = MessageOf(thrown, "Error al conectar"),
                        !.h.isConnecting = FALSE]
    IN  IF r.s.kind = "fac" THEN FacCatch(r1, thrown) ELSE Reject(r1, thrown)

\* connectToDevice adopting the handle without addMessage.
ConnectAdopt_Silent(r, handle, text) ==
    LET r2 == [r EXCEPT !.h.connectedDevice = handle, !.h.isConnecting = FALSE]
    IN  IF r.s.kind = "fac" THEN FacReturn(r2) ELSE Resolve(r2)

\* setConnectedDevice, addMessage, return through finally, then the caller.
ConnectAdopt(r, handle, text) ==
    LET r1 == System([r EXCEPT !.h.connectedDevice = handle], text, r.s.dev)
        r2 == [r1 EXCEPT !.h.isConnecting = FALSE]
    IN  IF r.s.kind = "fac" THEN FacReturn(r2) ELSE Resolve(r2)

\* connectToDevice disconnecting the session it is about to replace.
ConnectBody_TearsDown(r) ==
    LET r1 == IF r.h.connectedDevice \notin {Null, r.s.dev} THEN Ev(r, "disconnect") ELSE r
    IN  Ev([r1 EXCEPT !.h.isConnecting = TRUE, !.h.error = NoError, !.s.pc = "c_isConnected"],
           "isConnected")

\* setIsConnecting(true); setError(null); await device.isConnected().
ConnectBody(r) ==
    Ev([r EXCEPT !.h.isConnecting = TRUE, !.h.error = NoError, !.s.pc = "c_isConnected"],
       "isConnected")

\* connectToDevice testing the current permissionsGranted, not the captured one.
ConnectEntry_CurrentFlag(r) ==
    IF r.h.permissionsGranted THEN ConnectBody(r)
    ELSE IF platform[1] # "android"
    THEN ConnectBody(Ev(Ev(r, "requestBluetoothPermissions"), "granted"))
    ELSE Ev([r EXCEPT !.s.pc = "c_permissions"], "requestBluetoothPermissions")

\* The permission gate of connectToDevice, on the captured permissionsGranted.
ConnectEntry(r) ==
    IF r.s.pg THEN ConnectBody(r)
    ELSE IF platform[1] # "android"
    THEN ConnectBody(Ev(Ev(r, "requestBluetoothPermissions"), "granted"))
    ELSE Ev([r EXCEPT !.s.pc = "c_permissions"], "requestBluetoothPermissions")

\* pairDevice without the finally that resets isPairing, on the failing path
\* and on the returning one.
PairCatch_KeepPairing(r, thrown) ==
    LET r1 == [r EXCEPT !.h.error = MessageOf(thrown, "Error desconocido al emparejar")]
    IN  IF r.s.kind = "fac" THEN FacCatch(r1, thrown) ELSE Reject(r1, thrown)

PairReturn_KeepPairing(r) ==
    LET r1 == System(r, "Emparejado con", r.s.dev)
    IN  IF r.s.kind = "fac" THEN ConnectEntry(r1) ELSE Resolve(r1)

\* ------------------------------------------------------------ pairDevice
\* pairDevice whose catch throws a new error in place of the one it caught.
PairCatch_Wraps(r, thrown) ==
    LET r1 == [r EXCEPT !.h.error = MessageOf(thrown, "Error desconocido al emparejar"),
                        !.h.isPairing = FALSE]
        wrapped == Err("Error al emparejar")
    IN  IF r.s.kind = "fac" THEN FacCatch(r1, wrapped) ELSE Reject(r1, wrapped)

PairCatch(r, thrown) ==
    LET r1 == [r EXCEPT !.h.error = MessageOf(thrown, "Error desconocido al emparejar"),
                        !.h.isPairing = FALSE]
    IN  IF r.s.kind = "fac" THEN FacCatch(r1, thrown) ELSE Reject(r1, thrown)

\* addMessage, return through finally; findAndConnectMP4 goes on to connect.
PairReturn(r) ==
    LET r1 == System(r, "Emparejado con", r.s.dev)
        r2 == [r1 EXCEPT !.h.isPairing = FALSE]
    IN  IF r.s.kind = "fac" THEN ConnectEntry(r2) ELSE Resolve(r2)

PairBody(r) ==
    Ev([r EXCEPT !.h.isPairing = TRUE, !.h.error = NoError, !.s.pc = "p_pairDevice"],
       "pairDevice")

PairEntry(r) ==
    IF r.s.pg THEN PairBody(r)
    ELSE IF platform[1] # "android"
    THEN PairBody(Ev(Ev(r, "requestBluetoothPermissions"), "granted"))
    ELSE Ev([r EXCEPT !.s.pc = "p_permissions"], "requestBluetoothPermissions")

\* ----------------------------------------------------- findAndConnectMP4
\* setIsScanning(true); setError(null); await getBondedDevices().
FacBody(r) ==
    Ev([r EXCEPT !.h.isScanning = TRUE, !.h.error = NoError, !.s.pc = "f_bonded"],
       "getBondedDevices")

FacEntry(r) ==
    IF r.s.pg THEN FacBody(r)
    ELSE IF platform[1] # "android"
    THEN FacBody(Ev(Ev(r, "requestBluetoothPermissions"), "granted"))
    ELSE Ev([r EXCEPT !.s.pc = "f_permissions"], "requestBluetoothPermissions")

\* findAndConnectMP4 ignoring the bonded list.
FacBonded_NoShortcut(r, paired) ==
    Ev([r EXCEPT !.s.pc = "f_enable"], "requestBluetoothEnabled")

\* findAndConnectMP4 connecting a discovered device without pairing it.
FacDiscovered_SkipPair(r, discovered) ==
    LET mp4 == FindMP4(discovered)
    IN  IF mp4 = Null THEN FacCatch(r, NotFoundError)
        ELSE ConnectEntry([r EXCEPT !.h.mp4Device = mp4, !.s.dev = mp4])

\* After getBondedDevices: a bonded match is connected, else the adapter is
\* asked to enable Bluetooth.
FacBonded(r, paired) ==
    LET mp4 == FindMP4(paired)
    IN  IF mp4 # Null
        THEN ConnectEntry([r EXCEPT !.h.mp4Device = mp4, !.s.dev = mp4])
        ELSE Ev([r EXCEPT !.s.pc = "f_enable"], "requestBluetoothEnabled")

\* findAndConnectMP4 going on to discovery whatever the prompt answered.
FacEnabled_IgnoresDecline(r, enabled) ==
    Ev([System(r, "Buscando dispositivo MP4...", Null) EXCEPT !.s.pc = "f_discovery"],
       "startDiscovery")

\* After requestBluetoothEnabled.
FacEnabled(r, enabled) ==
    IF ~enabled THEN FacCatch(r, DisabledError)
    ELSE Ev([System(r, "Buscando dispositivo MP4...", Null) EXCEPT !.s.pc = "f_discovery"],
            "startDiscovery")

\* After startDiscovery: a discovered match is paired, then connected.
FacDiscovered(r, discovered) ==
    LET mp4 == FindMP4(discovered)
    IN  IF mp4 = Null THEN FacCatch(r, NotFoundError)
        ELSE PairEntry(System([r EXCEPT !.h.mp4Device = mp4, !.s.dev = mp4],
                              "Emparejando con", mp4))

\* The continuation of a gate after its permission request settled.
Gate(r, granted) ==
    LET r1 == Ev(r, IF granted THEN "granted" ELSE "denied")
    IN  CASE r.s.pc = "f_permissions" ->
               IF granted THEN FacBody(r1) ELSE FacCatch(r1, PermScanError)
          [] r.s.pc = "p_permissions" ->
               IF granted THEN PairBody(r1) ELSE PairCatch(r1, PermPairError)
          [] OTHER ->
               IF granted THEN ConnectBody(r1) ELSE ConnectCatch(r1, PermConnectError)

\* ------------------------------------------------------------- actions
\* An invocation has settled and its caller has not resumed yet: the promise's
\* continuation runs before any other event.
Settled == \/ \E i \in Slots : ops[i].pc = "done"
           \/ snd.pc = "done"
           \/ dsc.pc = "done"

Start(kind, d) == [Idle EXCEPT !.kind = kind, !.dev = d, !.pg = permissionsGranted]

Run(i) == [h |-> Hook, s |-> ops[i]]

\* A segment of invocation i: the render, every other invocation left alone.
Step(i, r) ==
    /\ ~Settled
    /\ Commit(r.h)
    /\ ops' = [ops EXCEPT ![i] = r.s]
    /\ UNCHANGED <<platform, mountPerm, snd, dsc, sub, live, removedTwice, inbound>>

\* The segment that follows an answer of the adapter.
Answer(i, r) == Step(i, r) /\ UNCHANGED calls

Mounted == mountPerm # "init"

\* A call of an ungated method of the hook, or an inbound data event.
Called == Mounted /\ calls + 1 <= MaxCalls /\ calls' = calls + 1

\* A call of a gated method of the hook.
CalledGated == Mounted /\ calls + 2 <= MaxCalls /\ calls' = calls + 2

NoFlag == ~isScanning /\ ~isConnecting /\ ~isPairing

\* The lowest invocation slot that is free.
FreeSlot(i) == ~InFlight(ops[i]) /\ \A j \in Slots : j < i => InFlight(ops[j])

\* The mount effects, in order: the hook requests the permissions, then the
\* application calls findAndConnectMP4 of the first render.
Mount ==
    /\ mountPerm = "init"
    /\ ~Settled
    /\ mountPerm' = IF platform[1] = "android" THEN "pending" ELSE "done"
    /\ LET r == FacEntry([h |-> Hook, s |-> Start("fac", Null)])
       IN  Commit(r.h) /\ ops' = [ops EXCEPT ![1] = r.s]
    /\ UNCHANGED <<platform, snd, dsc, sub, calls, live, removedTwice, inbound>>

\* The permission request of the mount effect settles.
MountPermissions ==
    /\ mountPerm = "pending"
    /\ ~Settled
    /\ \E a \in PermissionAnswers(platform) :
          Commit(requestBluetoothPermissions(Hook, platform, a).h)
    /\ mountPerm' = "done"
    /\ UNCHANGED <<platform, ops, snd, dsc, sub, calls, live, removedTwice, inbound>>

\* handleReconnect, from the button "Buscar MP4" or the button "Reintentar".
PressFind ==
    /\ CalledGated
    /\ \/ connectedDevice = Null /\ NoFlag
       \/ error # NoError /\ NoFlag
    /\ \E i \in Slots :
          /\ FreeSlot(i)
          /\ Step(i, FacEntry([h |-> Hook, s |-> Start("fac", Null)]))

\* pairDevice(device) called on the hook while no gated invocation is in flight.
CallPair(d) ==
    /\ CalledGated
    /\ \A i \in Slots : ~InFlight(ops[i])
    /\ Step(1, PairEntry([h |-> Hook, s |-> Start("pair", d)]))

\* connectToDevice(device) called on the hook while no gated invocation is in flight.
CallConnect(d) ==
    /\ CalledGated
    /\ \A i \in Slots : ~InFlight(ops[i])
    /\ Step(1, ConnectEntry([h |-> Hook, s |-> Start("connect", d)]))

\* The permission request of a gate settles.
PermissionsAnswer(i) ==
    /\ ops[i].pc \in {"f_permissions", "p_permissions", "c_permissions"}
    /\ \E a \in PermissionAnswers(platform) :
          LET q == requestBluetoothPermissions(Hook, platform, a)
          IN  Answer(i, Gate(Ev([h |-> q.h, s |-> ops[i]], Grant(platform, a)), q.ret))

BondedAnswer(i) ==
    /\ ops[i].pc = "f_bonded"
    /\ \/ \E paired \in DeviceLists : Answer(i, FacBonded(Ev(Run(i), IF Named(paired) = "MP4" THEN "bonded:MP4" ELSE "bonded:none"), paired))
       \/ \E e \in Rejections("getBondedDevices") : Answer(i, FacCatch(Ev(Run(i), Rejected(e)), e))

EnableAnswer(i) ==
    /\ ops[i].pc = "f_enable"
    /\ \/ \E enabled \in BOOLEAN : Answer(i, FacEnabled(Ev(Run(i), IF enabled THEN "enabled:true" ELSE "enabled:false"), enabled))
       \/ \E e \in Rejections("requestBluetoothEnabled") : Answer(i, FacCatch(Ev(Run(i), Rejected(e)), e))

DiscoveryAnswer(i) ==
    /\ ops[i].pc = "f_discovery"
    /\ \/ \E discovered \in DeviceLists : Answer(i, FacDiscovered(Ev(Run(i), IF Named(discovered) = "MP4" THEN "discovered:MP4" ELSE "discovered:none"), discovered))
       \/ \E e \in Rejections("startDiscovery") : Answer(i, FacCatch(Ev(Run(i), Rejected(e)), e))

PairAnswer(i) ==
    /\ ops[i].pc = "p_pairDevice"
    /\ \/ Answer(i, PairReturn(Run(i)))
       \/ \E e \in Rejections("pairDevice") : Answer(i, PairCatch(Ev(Run(i), Rejected(e)), e))

\* connectToDevice connecting whatever isConnected() answered.
ConnectChecked_Always(r, isConnected) ==
    Ev([r EXCEPT !.s.pc = "c_connectToDevice"], "connectToDevice")

\* After device.isConnected(): adopt the device, or connect through the adapter.
ConnectChecked(r, isConnected) ==
    IF isConnected THEN ConnectAdopt(r, r.s.dev, "Ya conectado a")
    ELSE Ev([r EXCEPT !.s.pc = "c_connectToDevice"], "connectToDevice")

IsConnectedAnswer(i) ==
    /\ ops[i].pc = "c_isConnected"
    /\ \/ \E b \in BOOLEAN : Answer(i, ConnectChecked(Ev(Run(i), IF b THEN "isConnected:true" ELSE "isConnected:false"), b))
       \/ \E e \in Rejections("isConnected") : Answer(i, ConnectCatch(Ev(Run(i), Rejected(e)), e))

\* RNBluetoothClassic.connectToDevice(device.id) resolves with the handle of
\* that device, or rejects.
ConnectAnswer(i) ==
    /\ ops[i].pc = "c_connectToDevice"
    /\ \/ Answer(i, ConnectAdopt(Run(i), ops[i].dev, "Conectado a"))
       \/ \E e \in Rejections("connectToDevice") : Answer(i, ConnectCatch(Ev(Run(i), Rejected(e)), e))

\* -------------------------------------------------- sendData, disconnect
\* An invocation of sendData or of disconnect: where it is, the connectedDevice
\* its closure captured, the data to send, whether it succeeded (the boolean
\* sendData returns; for disconnect, that nothing was caught) and, as history,
\* the types of the messages the log held when its last segment began and how
\* the handle answered its call (answer).
Stream(pc, d, data, ok, had) ==
    [pc |-> pc, dev |-> d, data |-> data, ok |-> ok, had |-> had, answer |-> "none"]

\* The history of an invocation records the answer of the handle.
Answered(s, answer) == [s EXCEPT !.answer = answer]

NoStream == Stream("idle", Null, "", FALSE, {})

Types(msgs) == {msgs[k].type : k \in 1..Len(msgs)}

\* sendData without the check of connectedDevice.
SendEntry_NoCheck(h, data) ==
    [h |-> [h EXCEPT !.error = NoError],
     s |-> Stream("write", h.connectedDevice, data, FALSE, Types(h.messages))]

\* sendData(data) up to the await of write: without a session it throws into
\* its own catch and returns false.
SendEntry(h, data) ==
    IF h.connectedDevice = Null
    THEN [h |-> [h EXCEPT !.error = MessageOf(NoDeviceError, "Error al enviar datos")],
          s |-> Stream("done", Null, data, FALSE, Types(h.messages))]
    ELSE [h |-> [h EXCEPT !.error = NoError],
          s |-> Stream("write", h.connectedDevice, data, FALSE, Types(h.messages))]

\* After write resolved: addMessage('sent', data); return true.
SendReturn(h, s) ==
    [h |-> [h EXCEPT !.messages = addMessage(@, "sent", <<s.data, <<>>>>)],
     s |-> Stream("done", s.dev, s.data, TRUE, Types(h.messages))]

\* sendData whose catch does not record the failure.
SendCatch_NoRecord(h, s, thrown) ==
    [h |-> h, s |-> Stream("done", s.dev, s.data, FALSE, Types(h.messages))]

\* catch of sendData: setError; return false.
SendCatch(h, s, thrown) ==
    [h |-> [h EXCEPT !.error = MessageOf(thrown, "Error al enviar datos")],
     s |-> Stream("done", s.dev, s.data, FALSE, Types(h.messages))]

SendData(data) ==
    /\ Called
    /\ snd.pc = "idle"
    /\ ~Settled
    /\ LET r == SendEntry(Hook, data)
       IN  Commit(r.h) /\ snd' = r.s
    /\ UNCHANGED <<platform, mountPerm, ops, dsc, sub, live, removedTwice, inbound>>

WriteAnswer ==
    /\ snd.pc = "write"
    /\ ~Settled
    /\ \/ LET r == SendReturn(Hook, snd)
          IN  Commit(r.h) /\ snd' = Answered(r.s, "resolved")
       \/ \E e \in Rejections("write") :
             LET r == SendCatch(Hook, snd, e)
             IN  Commit(r.h) /\ snd' = Answered(r.s, "rejected")
    /\ UNCHANGED <<platform, mountPerm, ops, dsc, sub, calls, live, removedTwice, inbound>>

\* disconnect() up to the await of the handle's disconnect; it returns at once
\* without a session.
DisconnectEntry(h) ==
    IF h.connectedDevice = Null THEN Stream("done", Null, "", TRUE, Types(h.messages))
    ELSE Stream("disconnect", h.connectedDevice, "", FALSE, Types(h.messages))

\* disconnect without setMessages([]).
DisconnectReturn_KeepLog(h, s) ==
    LET h1 == [h EXCEPT !.messages =
                   addMessage(@, "system", <<"Desconectado de", NameOf(s.dev)>>)]
    IN  [h |-> [h1 EXCEPT !.connectedDevice = Null],
         s |-> Stream("done", s.dev, "", TRUE, Types(h.messages))]

\* disconnect forgetting the target device along with the session.
DisconnectReturn_ClearsTarget(h, s) ==
    LET h1 == [h EXCEPT !.messages =
                   addMessage(@, "system", <<"Desconectado de", NameOf(s.dev)>>)]
    IN  [h |-> [h1 EXCEPT !.connectedDevice = Null, !.messages = <<>>, !.mp4Device = Null],
         s |-> Stream("done", s.dev, "", TRUE, Types(h.messages))]

\* After the handle's disconnect resolved: addMessage, setConnectedDevice(null),
\* setMessages([]).
DisconnectReturn(h, s) ==
    LET h1 == [h EXCEPT !.messages =
                   addMessage(@, "system", <<"Desconectado de", NameOf(s.dev)>>)]
    IN  [h |-> [h1 EXCEPT !.connectedDevice = Null, !.messages = <<>>],
         s |-> Stream("done", s.dev, "", TRUE, Types(h.messages))]

\* disconnect whose catch rethrows instead of recording.
DisconnectCatch_Rethrow(h, s, thrown) ==
    [h |-> h, s |-> Stream("thrown", s.dev, "", FALSE, Types(h.messages))]

\* disconnect dropping the session when the handle's disconnect failed.
DisconnectCatch_ClearsSession(h, s, thrown) ==
    [h |-> [h EXCEPT !.error = MessageOf(thrown, "Error al desconectar"),
                     !.connectedDevice = Null],
     s |-> Stream("done", s.dev, "", FALSE, Types(h.messages))]

\* catch of disconnect: setError, nothing rethrown.
DisconnectCatch(h, s, thrown) ==
    [h |-> [h EXCEPT !.error = MessageOf(thrown, "Error al desconectar")],
     s |-> Stream("done", s.dev, "", FALSE, Types(h.messages))]

Disconnect ==
    /\ Called
    /\ dsc.pc = "idle"
    /\ ~Settled
    /\ dsc' = DisconnectEntry(Hook)
    /\ UNCHANGED <<platform, permissionsGranted, connectedDevice, isScanning, isConnecting,
                   isPairing, messages, error, mp4Device, mountPerm, ops, snd, sub,
                   live, removedTwice, inbound>>

DisconnectAnswer ==
    /\ dsc.pc = "disconnect"
    /\ ~Settled
    /\ \/ LET r == DisconnectReturn(Hook, dsc)
          IN  Commit(r.h) /\ dsc' = Answered(r.s, "resolved") /\ inbound' = <<>>
       \/ \E e \in Rejections("disconnect") :
             LET r == DisconnectCatch(Hook, dsc, e)
             IN  Commit(r.h) /\ dsc' = Answered(r.s, "rejected") /\ UNCHANGED inbound
    /\ UNCHANGED <<platform, mountPerm, ops, snd, sub, calls, live, removedTwice>>

\* clearMessages: setMessages([]).
clearMessages(h) == [h EXCEPT !.messages = <<>>]

ClearMessages ==
    /\ Called
    /\ ~Settled
    /\ Commit(clearMessages(Hook))
    /\ inbound' = <<>>
    /\ UNCHANGED <<platform, mountPerm, ops, snd, dsc, sub, live, removedTwice>>

\* The subscriptions, as the effect on [connectedDevice] changes them: which
\* handles hold one (live) and whether one was removed twice (twice).
\* The cleanup the previous run of the effect returned: subscription?.remove().
ListenerCleanup(l, old) ==
    IF old = Null THEN l
    ELSE [live |-> l.live \ {old}, twice |-> l.twice \/ old \notin l.live]

\* The body of the effect: if (!connectedDevice) return; onDataReceived(...).
ListenerSetup(l, d) ==
    IF d = Null THEN l ELSE [l EXCEPT !.live = @ \cup {d}]

\* The effect on [connectedDevice] runs after a render in which connectedDevice
\* changed: the cleanup of its previous run, then its body.
ListenerEffect ==
    /\ sub # connectedDevice
    /\ ~Settled
    /\ sub' = connectedDevice
    /\ LET l == ListenerSetup(ListenerCleanup([live |-> live, twice |-> removedTwice], sub),
                              connectedDevice)
       IN  live' = l.live /\ removedTwice' = l.twice
    /\ UNCHANGED <<platform, permissionsGranted, connectedDevice, isScanning, isConnecting,
                   isPairing, messages, error, mp4Device, mountPerm, ops, snd, dsc, calls,
                   inbound>>

\* The callback writing the log from a captured, empty messages instead of
\* updating the current one.
onDataReceived_Overwrite(h, data) ==
    [h EXCEPT !.messages = addMessage(<<>>, "received", <<data, <<>>>>)]

\* The callback handed to onDataReceived: addMessage('received', data.data).
onDataReceived(h, data) ==
    [h EXCEPT !.messages = addMessage(@, "received", <<data, <<>>>>)]

\* A handle that holds a subscription calls the listener with inbound data.
DataReceived(data) ==
    /\ Called
    /\ live # {}
    /\ ~Settled
    /\ Commit(onDataReceived(Hook, data))
    /\ inbound' = Append(inbound, data)
    /\ UNCHANGED <<platform, mountPerm, ops, snd, dsc, sub, live, removedTwice>>

\* The caller of a settled invocation resumes; the invocation is gone.
Settle ==
    /\ Settled
    /\ ops' = [i \in Slots |-> IF ops[i].pc = "done" THEN Idle ELSE ops[i]]
    /\ snd' = IF snd.pc = "done" THEN NoStream ELSE snd
    /\ dsc' = IF dsc.pc = "done" THEN NoStream ELSE dsc
    /\ UNCHANGED <<platform, permissionsGranted, connectedDevice, isScanning, isConnecting,
                   isPairing, messages, error, mp4Device, mountPerm, sub, calls,
                   live, removedTwice, inbound>>

\* ------------------------------------------------- the ungated variant
\* The second useBluetoothClassic of the source, without permission gates: its
\* pairDevice, findAndConnectMP4, connectToDevice, disconnect, sendData and
\* clearMessages, segment by segment, on the same records.
UngatedFacCatch(r, thrown) ==
    Reject([r EXCEPT !.h.error = MessageOf(thrown, "Error desconocido al buscar MP4"),
                     !.h.isScanning = FALSE], thrown)

UngatedFacReturn(r) == Resolve([r EXCEPT !.h.isScanning = FALSE])

UngatedConnectCatch(r, thrown) ==
    LET r1 == [r EXCEPT !.h.error = MessageOf(thrown, "Error al conectar"),
                        !.h.isConnecting = FALSE]
    IN  IF r.s.kind = "fac" THEN UngatedFacCatch(r1, thrown) ELSE Reject(r1, thrown)

UngatedConnectAdopt(r, handle, text) ==
    LET r1 == System([r EXCEPT !.h.connectedDevice = handle], text, r.s.dev)
        r2 == [r1 EXCEPT !.h.isConnecting = FALSE]
    IN  IF r.s.kind = "fac" THEN UngatedFacReturn(r2) ELSE Resolve(r2)

UngatedConnectEntry(r) ==
    Ev([r EXCEPT !.h.isConnecting = TRUE, !.h.error = NoError, !.s.pc = "c_isConnected"],
       "isConnected")

UngatedConnectChecked(r, isConnected) ==
    IF isConnected THEN UngatedConnectAdopt(r, r.s.dev, "Ya conectado a")
    ELSE Ev([r EXCEPT !.s.pc = "c_connectToDevice"], "connectToDevice")

UngatedPairCatch(r, thrown) ==
    LET r1 == [r EXCEPT !.h.error = MessageOf(thrown, "Error desconocido al emparejar"),
                        !.h.isPairing = FALSE]
    IN  IF r.s.kind = "fac" THEN UngatedFacCatch(r1, thrown) ELSE Reject(r1, thrown)

UngatedPairReturn(r) ==
    LET r1 == System(r, "Emparejado con", r.s.dev)
        r2 == [r1 EXCEPT !.h.isPairing = FALSE]
    IN  IF r.s.kind = "fac" THEN UngatedConnectEntry(r2) ELSE Resolve(r2)

UngatedPairEntry(r) ==
    Ev([r EXCEPT !.h.isPairing = TRUE, !.h.error = NoError, !.s.pc = "p_pairDevice"],
       "pairDevice")

UngatedFacEntry(r) ==
    Ev([r EXCEPT !.h.isScanning = TRUE, !.h.error = NoError, !.s.pc = "f_bonded"],
       "getBondedDevices")

UngatedFacBonded(r, paired) ==
    LET mp4 == FindMP4(paired)
    IN  IF mp4 # Null
        THEN UngatedConnectEntry([r EXCEPT !.h.mp4Device = mp4, !.s.dev = mp4])
        ELSE Ev([r EXCEPT !.s.pc = "f_enable"], "requestBluetoothEnabled")

UngatedFacEnabled(r, enabled) ==
    IF ~enabled THEN UngatedFacCatch(r, DisabledError)
    ELSE Ev([System(r, "Buscando dispositivo MP4...", Null) EXCEPT !.s.pc = "f_discovery"],
            "startDiscovery")

UngatedFacDiscovered(r, discovered) ==
    LET mp4 == FindMP4(discovered)
    IN  IF mp4 = Null THEN UngatedFacCatch(r, NotFoundError)
        ELSE UngatedPairEntry(System([r EXCEPT !.h.mp4Device = mp4, !.s.dev = mp4],
                                     "Emparejando con", mp4))

UngatedDisconnectEntry(h) ==
    IF h.connectedDevice = Null THEN Stream("done", Null, "", TRUE, Types(h.messages))
    ELSE Stream("disconnect", h.connectedDevice, "", FALSE, Types(h.messages))

UngatedDisconnectReturn(h, s) ==
    LET h1 == [h EXCEPT !.messages =
                   addMessage(@, "system", <<"Desconectado de", NameOf(s.dev)>>)]
    IN  [h |-> [h1 EXCEPT !.connectedDevice = Null, !.messages = <<>>],
         s |-> Stream("done", s.dev, "", TRUE, Types(h.messages))]

UngatedDisconnectCatch(h, s, thrown) ==
    [h |-> [h EXCEPT !.error = MessageOf(thrown, "Error al desconectar")],
     s |-> Stream("done", s.dev, "", FALSE, Types(h.messages))]

UngatedSendEntry(h, data) ==
    IF h.connectedDevice = Null
    THEN [h |-> [h EXCEPT !.error = MessageOf(NoDeviceError, "Error al enviar datos")],
          s |-> Stream("done", Null, data, FALSE, Types(h.messages))]
    ELSE [h |-> [h EXCEPT !.error = NoError],
          s |-> Stream("write", h.connectedDevice, data, FALSE, Types(h.messages))]

UngatedSendReturn(h, s) ==
    [h |-> [h EXCEPT !.messages = addMessage(@, "sent", <<s.data, <<>>>>)],
     s |-> Stream("done", s.dev, s.data, TRUE, Types(h.messages))]

UngatedSendCatch(h, s, thrown) ==
    [h |-> [h EXCEPT !.error = MessageOf(thrown, "Error al enviar datos")],
     s |-> Stream("done", s.dev, s.data, FALSE, Types(h.messages))]

UngatedClearMessages(h) == [h EXCEPT !.messages = <<>>]

\* ------------------------------------------------------------ App.tsx
\* getStatusText of the application component, on isConnected = !!connectedDevice.
getStatusText ==
    IF connectedDevice # Null THEN "Conectado"
    ELSE IF isConnecting THEN "Conectando..."
    ELSE IF isPairing THEN "Emparejando..."
    ELSE IF isScanning THEN "Buscando MP4..."
    ELSE "Desconectado"

\* The history of an invocation records the list a listing call resolved with.
Listed(r, list) == [r EXCEPT !.s.list = list]

\* getBondedDevices and startDiscovery answering with the devices in range.
BondedListed(i) ==
    /\ ops[i].pc = "f_bonded"
    /\ \/ \E paired \in NearbyLists : Answer(i, FacBonded(Listed(Ev(Run(i), IF Named(paired) = "MP4" THEN "bonded:MP4" ELSE "bonded:none"), paired), paired))
       \/ \E e \in Rejections("getBondedDevices") : Answer(i, FacCatch(Ev(Run(i), Rejected(e)), e))

DiscoveryListed(i) ==
    /\ ops[i].pc = "f_discovery"
    /\ \/ \E discovered \in NearbyLists : Answer(i, FacDiscovered(Listed(Ev(Run(i), IF Named(discovered) = "MP4" THEN "discovered:MP4" ELSE "discovered:none"), discovered), discovered))
       \/ \E e \in Rejections("startDiscovery") : Answer(i, FacCatch(Ev(Run(i), Rejected(e)), e))

\* ---------------------------------------------------------- specification
Init ==
    /\ platform \in Platforms
    /\ permissionsGranted = FALSE
    /\ connectedDevice = Null
    /\ isScanning = FALSE
    /\ isConnecting = FALSE
    /\ isPairing = FALSE
    /\ messages = <<>>
    /\ error = NoError
    /\ mp4Device = Null
    /\ mountPerm = "init"
    /\ ops = [i \in Slots |-> Idle]
    /\ snd = NoStream
    /\ dsc = NoStream
    /\ sub = Null
    /\ calls = 0
    /\ live = {}
    /\ removedTwice = FALSE
    /\ inbound = <<>>

Next ==
    \/ Mount
    \/ MountPermissions
    \/ PressFind
    \/ \E d \in Devices : CallPair(d)
    \/ \E d \in Devices : CallConnect(d)
    \/ \E i \in Slots : PermissionsAnswer(i)
    \/ \E i \in Slots : BondedAnswer(i)
    \/ \E i \in Slots : EnableAnswer(i)
    \/ \E i \in Slots : DiscoveryAnswer(i)
    \/ \E i \in Slots : PairAnswer(i)
    \/ \E i \in Slots : IsConnectedAnswer(i)
    \/ \E i \in Slots : ConnectAnswer(i)
    \/ \E data \in Data : SendData(data)
    \/ WriteAnswer
    \/ Disconnect
    \/ DisconnectAnswer
    \/ ClearMessages
    \/ ListenerEffect
    \/ \E data \in Inbound : DataReceived(data)
    \/ Settle

Spec == Init /\ [][Next]_vars

\* Every call made to the platform or the adapter completes, with a result or
\* an error, and the caller of a settled invocation resumes.
EveryCallCompletes ==
    /\ WF_vars(MountPermissions)
    /\ WF_vars(Settle)
    /\ \A i \in Slots :
          /\ WF_vars(PermissionsAnswer(i))
          /\ WF_vars(BondedAnswer(i))
          /\ WF_vars(EnableAnswer(i))
          /\ WF_vars(DiscoveryAnswer(i))
          /\ WF_vars(PairAnswer(i))
          /\ WF_vars(IsConnectedAnswer(i))
          /\ WF_vars(ConnectAnswer(i))

\* findAndConnectMP4 as the application component starts it, at mount and from
\* its buttons, every call it awaits completing.
LiveNext ==
    \/ Mount
    \/ MountPermissions
    \/ PressFind
    \/ \E i \in Slots : PermissionsAnswer(i)
    \/ \E i \in Slots : BondedAnswer(i)
    \/ \E i \in Slots : EnableAnswer(i)
    \/ \E i \in Slots : DiscoveryAnswer(i)
    \/ \E i \in Slots : PairAnswer(i)
    \/ \E i \in Slots : IsConnectedAnswer(i)
    \/ \E i \in Slots : ConnectAnswer(i)
    \/ ListenerEffect
    \/ Settle

LiveSpec == Init /\ [][LiveNext]_vars /\ EveryCallCompletes

\* The findAndConnectMP4 the mount effect of the application component starts,
\* alone, with the devices in range answering the listing calls.
FindNext ==
    \/ Mount
    \/ MountPermissions
    \/ \E i \in Slots : PermissionsAnswer(i)
    \/ \E i \in Slots : BondedListed(i)
    \/ \E i \in Slots : EnableAnswer(i)
    \/ \E i \in Slots : DiscoveryListed(i)
    \/ \E i \in Slots : PairAnswer(i)
    \/ \E i \in Slots : IsConnectedAnswer(i)
    \/ \E i \in Slots : ConnectAnswer(i)
    \/ ListenerEffect
    \/ Settle

FindSpec == Init /\ [][FindNext]_vars

\* ------------------------------------------------------------ properties
Has(tr, e) == \E k \in 1..Len(tr) : tr[k] = e

\* Where e first occurs in tr (0 when it does not).
At(tr, e) == IF Has(tr, e) THEN CHOOSE k \in 1..Len(tr) : tr[k] = e /\ \A j \in 1..(k - 1) : tr[j] # e
             ELSE 0

Count(tr, S) == Cardinality({k \in 1..Len(tr) : tr[k] \in S})

IsPrefix(a, b) == Len(a) <= Len(b) /\ SubSeq(b, 1, Len(a)) = a

\* The texts of the System messages a gated invocation appends.
SystemTexts ==
    {"Buscando dispositivo MP4...", "Emparejando con", "Emparejado con",
     "Ya conectado a", "Conectado a"}

IsStage(e) == e \in {"requestBluetoothEnabled", "startDiscovery", "pairDevice", "connectToDevice"}

Stages(tr) == SelectSeq(tr, IsStage)

Others(i) == \E j \in Slots : j # i /\ InFlight(ops[j])

\* C1: a findAndConnectMP4 run whose bonded list holds a device named with the
\* prefix selects that device, never asks the adapter to enable Bluetooth, to
\* discover or to pair, and when it returns the device it has that device as
\* connectedDevice and has appended exactly one System message.
C1_BondedMatch ==
    \A i \in Slots :
        LET s == ops[i]
        IN  (s.kind = "fac" /\ Has(s.trace, "bonded:MP4")) =>
               /\ s.dev # Null /\ IsMP4(s.dev)
               /\ ~Has(s.trace, "requestBluetoothEnabled")
               /\ ~Has(s.trace, "startDiscovery")
               /\ ~Has(s.trace, "pairDevice")
               /\ (s.pc = "done" /\ s.ok) =>
                     /\ connectedDevice = s.dev
                     /\ mp4Device = s.dev
                     /\ Count(s.trace, SystemTexts) = 1

C1_Witness ==
    \E i \in Slots :
        /\ ops[i].kind = "fac" /\ ops[i].pc = "done" /\ ops[i].ok
        /\ Has(ops[i].trace, "bonded:MP4")
        /\ Has(ops[i].trace, "connectToDevice")

\* C2: a findAndConnectMP4 run with no bonded match, Bluetooth enabled and a
\* discovered match issues enable, discover, pair, connect in that order; the
\* message "Emparejando con" is in the log before pairDevice is called and the
\* message "Conectado a" is appended after connectToDevice was called, as the
\* last thing the run does.
C2_DiscoveryOrder ==
    \A i \in Slots :
        LET s == ops[i]
            tr == s.trace
        IN  (s.kind = "fac" /\ Has(tr, "bonded:none") /\ Has(tr, "enabled:true")
               /\ Has(tr, "discovered:MP4")) =>
               /\ IsPrefix(Stages(tr),
                           <<"requestBluetoothEnabled", "startDiscovery", "pairDevice",
                             "connectToDevice">>)
               /\ Has(tr, "Emparejando con")
               /\ Has(tr, "pairDevice") => At(tr, "Emparejando con") < At(tr, "pairDevice")
               /\ Has(tr, "Conectado a") =>
                     /\ Has(tr, "connectToDevice")
                     /\ At(tr, "connectToDevice") < At(tr, "Conectado a")
                     /\ At(tr, "Conectado a") = Len(tr)
               /\ (s.pc = "done" /\ s.ok) =>
                     /\ Has(tr, "pairDevice")
                     /\ Has(tr, "connectToDevice") <=> Has(tr, "Conectado a")
                     /\ Has(tr, "connectToDevice") \/ Has(tr, "isConnected:true")

C2_Witness ==
    \E i \in Slots :
        /\ ops[i].kind = "fac" /\ ops[i].pc = "done" /\ ops[i].ok
        /\ Has(ops[i].trace, "discovered:MP4")
        /\ Stages(ops[i].trace) =
              <<"requestBluetoothEnabled", "startDiscovery", "pairDevice", "connectToDevice">>

\* A findAndConnectMP4 run that found the prefix neither among the bonded
\* devices nor among the discovered ones, and has exited.
NotFoundExit(s) ==
    /\ s.kind = "fac" /\ s.pc = "done"
    /\ Has(s.trace, "bonded:none") /\ Has(s.trace, "discovered:none")

\* C3, as stated: such a run fails with the target-not-found error, issues no
\* pair or connect call, and at its exit the status is Disconnected (no
\* session, no flag) with isScanning false.
C3_AsStated ==
    \A i \in Slots :
        NotFoundExit(ops[i]) =>
           /\ ~ops[i].ok /\ ops[i].thrown = NotFoundError
           /\ ~Has(ops[i].trace, "pairDevice")
           /\ ~Has(ops[i].trace, "connectToDevice")
           /\ ~isScanning
           /\ connectedDevice = Null /\ NoFlag

\* C3, amended: such a run fails with the target-not-found error, issues no
\* pair, isConnected or connect call and adopts no session, and at its exit
\* isScanning is false and the error slot holds the error's message; isPairing
\* and isConnecting are false unless another gated invocation is in flight.
\* The session is left as it was: the status is Disconnected only when no
\* session was connected.
C3_NotFound ==
    \A i \in Slots :
        NotFoundExit(ops[i]) =>
           /\ ~ops[i].ok /\ ops[i].thrown = NotFoundError
           /\ error = NotFoundError.message
           /\ ~Has(ops[i].trace, "pairDevice")
           /\ ~Has(ops[i].trace, "isConnected")
           /\ ~Has(ops[i].trace, "connectToDevice")
           /\ Count(ops[i].trace, {"Ya conectado a", "Conectado a"}) = 0
           /\ ~isScanning
           /\ ~Others(i) => /\ NoFlag
                            /\ getStatusText = "Desconectado" <=> connectedDevice = Null

C3_Witness ==
    \E i \in Slots : NotFoundExit(ops[i]) /\ connectedDevice # Null /\ ~Others(i)

C5_SendWithoutSession ==
    [][(snd.pc = "idle" /\ snd'.pc # "idle" /\ connectedDevice = Null) =>
          /\ snd'.pc = "done" /\ ~snd'.ok
          /\ messages' = messages
          /\ error' = NoDeviceError.message]_vars

C5_Witness ==
    snd.pc = "done" /\ snd.dev = Null /\ ~snd.ok /\ messages # <<>>

\* C6: when device.isConnected() answers true, connectToDevice never calls the
\* adapter's connectToDevice: in the same segment it adopts the device as
\* connectedDevice, appends the one message "Ya conectado a" and resolves.
C6_AlreadyConnected ==
    \A i \in Slots :
        LET s == ops[i]
            n == Len(s.trace)
        IN  Has(s.trace, "isConnected:true") =>
               /\ s.pc = "done" /\ s.ok
               /\ ~Has(s.trace, "connectToDevice")
               /\ connectedDevice = s.dev
               /\ n >= 3
               /\ SubSeq(s.trace, n - 2, n) = <<"isConnected", "isConnected:true", "Ya conectado a">>
               /\ Count(s.trace, {"Ya conectado a", "Conectado a"}) = 1
               /\ s.kind = "connect" => Count(s.trace, SystemTexts) = 1
               /\ ~isConnecting

C6_Witness ==
    \E i \in Slots :
        /\ ops[i].kind = "connect" /\ ops[i].pc = "done"
        /\ Has(ops[i].trace, "isConnected:true")

\* The error a gated function throws when its permission gate fails.
PermError(kind) ==
    CASE kind = "fac"  -> PermScanError
      [] kind = "pair" -> PermPairError
      [] OTHER         -> PermConnectError

AdapterCalls ==
    {"getBondedDevices", "requestBluetoothEnabled", "startDiscovery", "pairDevice",
     "isConnected", "connectToDevice"}

\* C7: a permission request answered with a partial grant returns false; a
\* gated invocation that begins with permissionsGranted false and whose
\* permission request is not granted in full rejects with its permission error
\* in that same segment, having issued no adapter call, and leaves
\* permissionsGranted false; no call follows a denied gate.
C7_PermissionDenied ==
    \A i \in Slots :
        LET s == ops[i]
            n == Len(s.trace)
        IN  /\ \A k \in 1..n : s.trace[k] = "grant:partial" =>
                  k < n /\ s.trace[k + 1] = "denied"
            /\ \A k \in 1..n : s.trace[k] = "denied" =>
                  /\ k = n /\ s.pc = "done" /\ ~s.ok
                  /\ ~permissionsGranted
                  /\ s.thrown \in {PermScanError, PermPairError, PermConnectError}
                  /\ error = s.thrown.message
            /\ (n >= 2 /\ s.trace[2] \in {"grant:partial", "grant:none", "grant:throw"}) =>
                  /\ ~s.pg
                  /\ s.trace = <<"requestBluetoothPermissions", s.trace[2], "denied">>
                  /\ s.thrown = PermError(s.kind)
                  /\ Count(s.trace, AdapterCalls) = 0

C7_Witness ==
    \E i \in Slots :
        /\ ops[i].kind = "pair" /\ ops[i].pc = "done"
        /\ ops[i].trace = <<"requestBluetoothPermissions", "grant:partial", "denied">>

\* C8: every step leaves the log unchanged, extends it at the end, or empties
\* it; no entry is reordered, modified or removed on its own.
C8_LogAppendOnly ==
    [][\/ messages' = messages
       \/ messages' = <<>>
       \/ /\ Len(messages') > Len(messages)
          /\ SubSeq(messages', 1, Len(messages)) = messages]_vars

C8_Witness ==
    /\ Len(messages) >= 3
    /\ messages[1].type = "system" /\ messages[2].type = "sent"
    /\ messages[3].type = "received"

\* C9: whenever no gated invocation is in flight, isScanning, isPairing and
\* isConnecting are all false; and as findAndConnectMP4, pairDevice or
\* connectToDevice exits, on any path, its own flag is false.
C9_FlagsCleared ==
    /\ (\A i \in Slots : ~InFlight(ops[i])) => NoFlag
    /\ \A i \in Slots :
          ops[i].pc = "done" =>
             /\ ops[i].kind = "fac" => ~isScanning
             /\ ops[i].kind = "pair" => ~isPairing
             /\ ops[i].kind = "connect" => ~isConnecting
             /\ Has(ops[i].trace, "pairDevice") /\ ~Others(i) => ~isPairing
             /\ Has(ops[i].trace, "isConnected") /\ ~Others(i) => ~isConnecting

C9_Witness ==
    \E i \in Slots :
        /\ ops[i].kind = "fac" /\ ops[i].pc = "done" /\ ~Others(i)
        /\ ops[i].thrown = Err("pairDevice")

\* How many of Scanning, Pairing, Connecting and Connected hold.
Holding ==
    Cardinality({f \in {"Scanning", "Pairing", "Connecting", "Connected"} :
                    \/ f = "Scanning" /\ isScanning
                    \/ f = "Pairing" /\ isPairing
                    \/ f = "Connecting" /\ isConnecting
                    \/ f = "Connected" /\ connectedDevice # Null})

\* C10, as stated: in every reachable state at most one of Scanning, Pairing,
\* Connecting and Connected is true.
C10_AsStated == Holding <= 1

\* C10, amended: Scanning stays true through the pairing and connecting steps
\* of a findAndConnectMP4 run, and a session stays connected through a later
\* run; Pairing and Connecting are never true together while at most one gated
\* invocation is in flight; the status shown is one text, chosen by the
\* priority Connected, Connecting, Pairing, Scanning, and it is Disconnected
\* exactly when none of the four holds.
C10_StatusByPriority ==
    /\ Cardinality({i \in Slots : InFlight(ops[i])}) <= 1 => ~(isPairing /\ isConnecting)
    /\ getStatusText = "Desconectado" <=> Holding = 0
    /\ (isConnecting /\ connectedDevice = Null) => getStatusText = "Conectando..."

C10_Witness ==
    /\ Cardinality({i \in Slots : InFlight(ops[i])}) = 1
    /\ isScanning /\ isConnecting /\ connectedDevice = Null
    /\ getStatusText = "Conectando..."

\* The last entry of the log is the System message text for device d.
LastIs(text, d) ==
    /\ messages # <<>>
    /\ messages[Len(messages)] = [type |-> "system", content |-> <<text, NameOf(d)>>]

Adoptions == {"Ya conectado a", "Conectado a"}

\* What an invocation appends when it connects and when it pairs: at most one
\* message each, and exactly one, the last entry of the log, as it returns.
ConnectAndPairLogOnce ==
    \A i \in Slots :
        LET s == ops[i]
            tr == s.trace
        IN  /\ Count(tr, Adoptions) <= 1
            /\ Count(tr, {"Emparejado con"}) <= 1
            /\ (s.pc = "done" /\ s.ok /\ s.kind \in {"connect", "fac"}) =>
                  /\ Count(tr, Adoptions) = 1
                  /\ tr[Len(tr)] \in Adoptions
                  /\ LastIs(tr[Len(tr)], s.dev)
            /\ (s.pc = "done" /\ s.ok /\ s.kind = "pair") =>
                  /\ Count(tr, SystemTexts) = 1
                  /\ tr[Len(tr)] = "Emparejado con"
                  /\ LastIs("Emparejado con", s.dev)
            /\ (s.kind = "fac" /\ Has(tr, "pairDevice")
                  /\ s.pc \in {"c_permissions", "c_isConnected", "c_connectToDevice"}) =>
                  /\ Count(tr, {"Emparejado con"}) = 1
                  /\ At(tr, "pairDevice") < At(tr, "Emparejado con")

\* C11, as stated: a successful connect, a successful pair and a successful
\* disconnect each leave their one System message in the log as they return.
C11_AsStated ==
    /\ ConnectAndPairLogOnce
    /\ (dsc.pc = "done" /\ dsc.dev # Null /\ dsc.ok) => LastIs("Desconectado de", dsc.dev)

\* C11, amended: a successful connect and a successful pair each append exactly
\* one System message, which is the last entry of the log as the operation
\* returns; a successful disconnect appends its System message and empties the
\* log in the same step, so no message of it is in the log as it returns.
C11_OneSystemMessage ==
    /\ ConnectAndPairLogOnce
    /\ (dsc.pc = "done" /\ dsc.dev # Null /\ dsc.ok) => messages = <<>>
    /\ \A k \in 1..Len(messages) : messages[k].content[1] # "Desconectado de"

C11_Witness ==
    \E i \in Slots :
        /\ ops[i].kind = "connect" /\ ops[i].pc = "done" /\ ops[i].ok
        /\ Has(ops[i].trace, "Conectado a")
        /\ Len(messages) >= 2

\* C12: when the write of a sendData call with a session resolves, exactly one
\* Sent message carrying the data is appended and the call returns true; when
\* the write rejects, the call returns false, the last-error slot holds the
\* failure and the log is as it was.
C12_SendOutcome ==
    [][(snd.pc = "write" /\ snd'.pc # "write") =>
          /\ snd.dev # Null /\ snd'.pc = "done"
          /\ snd'.answer = "resolved" =>
                /\ snd'.ok
                /\ messages' = Append(messages, [type |-> "sent", content |-> <<snd.data, <<>>>>])
          /\ snd'.answer # "resolved" =>
                /\ ~snd'.ok
                /\ messages' = messages
                /\ error' \in {"write", "Error al enviar datos"}]_vars

C12_Witness ==
    /\ snd.pc = "done" /\ snd.dev # Null /\ snd.answer = "resolved"
    /\ messages # <<>> /\ messages[Len(messages)].type = "sent"
    /\ error = NoError

IsReceived(m) == m.type = "received"

\* The Received entries of the log, in order.
ReceivedLog == SelectSeq(messages, IsReceived)

\* C13: the Received entries of the log are, in order and one for one, the
\* data the listener was called with since the log was last emptied: no
\* delivery is dropped, none is duplicated, none is reordered.
C13_EveryInboundLogged ==
    /\ Len(ReceivedLog) = Len(inbound)
    /\ \A k \in 1..Len(inbound) : ReceivedLog[k].content = <<inbound[k], <<>>>>

C13_Witness ==
    /\ connectedDevice # Null /\ live = {connectedDevice}
    /\ Len(inbound) >= 2 /\ inbound[1] # inbound[2]
    /\ Len(messages) > Len(inbound)

\* C14: at most one subscription is live, every live subscription is on the
\* handle that is the current session (it is canceled when its session ends,
\* never left live on a stale handle), and none is canceled twice.
C14_AsStated ==
    /\ Cardinality(live) <= 1
    /\ \A d \in live : d = connectedDevice
    /\ ~removedTwice

\* What holds of the subscriptions: at most one is live, it is on the handle
\* the effect last ran for, and none is removed twice.
SubscriptionFollowsEffect ==
    /\ Cardinality(live) <= 1
    /\ live = (IF sub = Null THEN {} ELSE {sub})
    /\ ~removedTwice

\* A subscription is live on a handle that is no longer the session.
StaleSubscription == \E d \in live : d # connectedDevice

\* C15: when the handle's disconnect rejects, disconnect() returns (it is done,
\* not thrown) in that segment, the last-error slot holds the failure, and the
\* session and the log are as they were.
C15_DisconnectNeverRaises ==
    [][(dsc.pc = "disconnect" /\ dsc'.answer = "rejected") =>
          /\ dsc'.pc = "done" /\ ~dsc'.ok
          /\ error' \in {"disconnect", "Error al desconectar"}
          /\ connectedDevice' = connectedDevice
          /\ messages' = messages]_vars

C15_Witness ==
    /\ dsc.pc = "done" /\ dsc.dev # Null /\ dsc.answer = "rejected"
    /\ connectedDevice = dsc.dev
    /\ error = "Error al desconectar"

IsSystemText(e) == e \in SystemTexts

\* The System messages a gated invocation appended, in order.
Appended(tr) == SelectSeq(tr, IsSystemText)

\* A findAndConnectMP4 run that has exited in failure.
FailedRun(s) == s.kind = "fac" /\ s.pc = "done" /\ ~s.ok

\* C16, as stated: a findAndConnectMP4 run that ends in failure has appended
\* nothing to the log.
C16_AsStated ==
    \A i \in Slots : FailedRun(ops[i]) => Appended(ops[i].trace) = <<>>

\* The progress messages of the steps a failed run reached: none before
\* discovery starts, "Buscando dispositivo MP4..." from then on, "Emparejando
\* con" once a device was discovered, "Emparejado con" once it was paired; never
\* a message of adoption.
ProgressOnly ==
    \A i \in Slots :
        LET tr == ops[i].trace
            n == Len(Appended(tr))
        IN  FailedRun(ops[i]) =>
               /\ IsPrefix(Appended(tr),
                           <<"Buscando dispositivo MP4...", "Emparejando con", "Emparejado con">>)
               /\ n >= 1 <=> Has(tr, "startDiscovery")
               /\ n >= 2 <=> Has(tr, "discovered:MP4")
               /\ n = 3 => Has(tr, "pairDevice") /\ ops[i].thrown # Err("pairDevice")
               /\ Has(tr, "bonded:MP4") => n = 0

\* C16, amended: the segment in which a findAndConnectMP4 run fails appends
\* nothing, and what a failed run has appended are the progress messages of the
\* steps it reached before failing, nothing else.
C16_FailureAppendsNoMessage ==
    [][/\ \A i \in Slots :
             (ops[i].pc # "done" /\ FailedRun(ops'[i])) => messages' = messages
       /\ ProgressOnly']_vars

C16_Witness ==
    \E i \in Slots :
        /\ FailedRun(ops[i]) /\ ops[i].thrown = Err("connectToDevice")
        /\ Len(Appended(ops[i].trace)) = 3

\* The adapter call a trace ends with the rejection of (Null when it does not
\* end with a rejection).
RejectedCall(tr) ==
    IF Len(tr) >= 2 /\ tr[Len(tr)] \in {"rejected:Error", "rejected:value"}
    THEN tr[Len(tr) - 1] ELSE Null

\* C17: when pairDevice, isConnected or connectToDevice rejects inside a
\* findAndConnectMP4 run, the run rejects in that segment with the very value
\* the adapter rejected with, the last-error slot holds that error's message
\* (the fallback text of findAndConnectMP4 when the value is no Error), and no
\* later call is issued: a failed pairing, by the adapter or by its permission
\* gate, is never followed by an isConnected or connect call.
C17_SubStepErrorUnchanged ==
    \A i \in Slots :
        LET s == ops[i]
            tr == s.trace
            call == RejectedCall(tr)
        IN  s.kind = "fac" =>
               /\ call \in {"pairDevice", "isConnected", "connectToDevice"} =>
                     /\ s.pc = "done" /\ ~s.ok
                     /\ s.thrown = (IF tr[Len(tr)] = "rejected:Error" THEN Err(call) ELSE NonError)
                     /\ error = (IF tr[Len(tr)] = "rejected:Error" THEN call
                                 ELSE "Error desconocido al buscar MP4")
                     /\ call = "pairDevice" =>
                           ~Has(tr, "isConnected") /\ ~Has(tr, "connectToDevice")
                     /\ call = "isConnected" => ~Has(tr, "connectToDevice")
               /\ (s.pc = "done" /\ s.thrown = PermPairError) =>
                     /\ ~Has(tr, "pairDevice") /\ ~Has(tr, "isConnected")
                     /\ ~Has(tr, "connectToDevice")
                     /\ error = PermPairError.message

C17_Witness ==
    \E i \in Slots :
        /\ ops[i].kind = "fac" /\ RejectedCall(ops[i].trace) = "pairDevice"
        /\ ops[i].trace[Len(ops[i].trace)] = "rejected:Error"
        /\ error = "pairDevice"

\* A findAndConnectMP4 run in which requestBluetoothEnabled answered false.
Declined(s) == s.kind = "fac" /\ Has(s.trace, "enabled:false")

\* C18, as stated: when no bonded device matches and the enable prompt is
\* declined, the run aborts with the adapter-disabled error, issues no
\* discovery, pair or connect, appends no message, and exits with the status
\* Disconnected.
C18_AsStated ==
    \A i \in Slots :
        Declined(ops[i]) =>
           /\ ops[i].pc = "done" /\ ops[i].thrown = DisabledError
           /\ Count(ops[i].trace, {"startDiscovery", "pairDevice", "connectToDevice"}) = 0
           /\ Appended(ops[i].trace) = <<>>
           /\ getStatusText = "Desconectado"

\* C18, amended: such a run aborts in that segment with the adapter-disabled
\* error, recorded in the last-error slot, issues no discovery, pair,
\* isConnected or connect, appends no message and exits with isScanning false;
\* the session is left as it was, so the status is Disconnected only if no
\* session was connected (and no other gated invocation is in flight).
C18_EnableDeclined ==
    \A i \in Slots :
        LET s == ops[i]
        IN  Declined(s) =>
               /\ Has(s.trace, "bonded:none")
               /\ s.pc = "done" /\ ~s.ok /\ s.thrown = DisabledError
               /\ error = DisabledError.message
               /\ Count(s.trace, {"startDiscovery", "pairDevice", "isConnected",
                                  "connectToDevice"}) = 0
               /\ Appended(s.trace) = <<>>
               /\ s.trace[Len(s.trace)] = "enabled:false"
               /\ ~isScanning
               /\ ~Others(i) => /\ NoFlag
                                /\ getStatusText = "Desconectado" <=> connectedDevice = Null

C18_Witness ==
    \E i \in Slots :
        /\ Declined(ops[i]) /\ ~Others(i)
        /\ getStatusText = "Desconectado" /\ messages = <<>>

GrantEvents == {"grant:throw", "grant:all", "grant:none", "grant:partial"}

\* C19: requestBluetoothPermissions returns true exactly when the request
\* granted every capability asked for (ACCESS_FINE_LOCATION below API 31, the
\* three capabilities from API 31 on), or when the platform is not android,
\* where it returns true without asking; a partial grant, an empty grant and a
\* request that throws all return false.
C19_AllOrNothing ==
    \A i \in Slots :
        LET tr == ops[i].trace
            n == Len(tr)
        IN  /\ \A k \in 1..n : tr[k] \in GrantEvents =>
                  /\ platform[1] = "android"
                  /\ k > 1 /\ tr[k - 1] = "requestBluetoothPermissions"
                  /\ k < n /\ tr[k + 1] \in {"granted", "denied"}
                  /\ tr[k + 1] = "granted" <=> tr[k] = "grant:all"
                  /\ platform[2] < 31 => tr[k] # "grant:partial"
            /\ \A k \in 1..n : tr[k] \in {"granted", "denied"} =>
                  /\ k > 1
                  /\ IF platform[1] = "android" THEN tr[k - 1] \in GrantEvents
                     ELSE tr[k - 1] = "requestBluetoothPermissions" /\ tr[k] = "granted"
            /\ \A k \in 1..n : tr[k] = "requestBluetoothPermissions" =>
                  \/ k = n /\ platform[1] = "android"
                        /\ ops[i].pc \in {"f_permissions", "p_permissions", "c_permissions"}
                  \/ k < n /\ tr[k + 1] \in GrantEvents \cup {"granted"}

C19_Witness ==
    \E i \in Slots :
        /\ platform = <<"android", 31>>
        /\ Has(ops[i].trace, "grant:all") /\ Has(ops[i].trace, "granted")
        /\ Has(ops[i].trace, "getBondedDevices")

\* A call of requestBluetoothPermissions by the gate of invocation i returns
\* the value b in this step.
Returns(i, b) ==
    LET e == IF b THEN "granted" ELSE "denied"
    IN  Count(ops'[i].trace, {e}) > Count(ops[i].trace, {e})

\* C20: when a call of requestBluetoothPermissions completes, on any platform,
\* permissionsGranted is the value it returned.
C20_AsStated ==
    [][\A i \in Slots : \A b \in BOOLEAN : Returns(i, b) => permissionsGranted' = b]_vars

\* The same, for the calls made on android.
GrantedIsReturnedOnAndroid ==
    [][\A i \in Slots : \A b \in BOOLEAN :
          (Returns(i, b) /\ platform[1] = "android") => permissionsGranted' = b]_vars

\* How many permission requests an invocation has issued.
Requests(s) == Count(s.trace, {"requestBluetoothPermissions"})

\* C21: a gated function issues a permission request only when
\* permissionsGranted is false as its gate is reached; in particular the pair
\* and connect steps of a findAndConnectMP4 run whose own gate set it to true
\* request nothing.
C21_AsStated ==
    [][\A i \in Slots : Requests(ops'[i]) > Requests(ops[i]) => ~permissionsGranted]_vars

\* What the gates do follow: the permissionsGranted their closure captured.
GateFollowsCapturedFlag ==
    \A i \in Slots :
        LET s == ops[i]
        IN  s.kind # "none" =>
               /\ s.pg <=> Requests(s) = 0
               /\ ~s.pg => s.trace[1] = "requestBluetoothPermissions"

\* The reasons requestBluetoothPermissions writes to error.
PermissionReasons ==
    {"Se requieren permisos de Bluetooth para continuar", "Error al solicitar permisos"}

\* The permission request of the mount effect settles without the grant.
MountRequestFails ==
    mountPerm = "pending" /\ mountPerm' = "done" /\ ~permissionsGranted'

\* C22: whenever requestBluetoothPermissions fails, on any branch, it leaves a
\* human-readable reason in error.
C22_AsStated == [][MountRequestFails => error' \in PermissionReasons]_vars

\* What the code does: past the API threshold, or when the request throws, a
\* failure writes a reason; below the threshold a denial leaves error as it was.
ReasonUnlessSingleDenial ==
    [][MountRequestFails =>
          IF platform[2] >= BluetoothApiLevel \/ error' # error
          THEN error' \in PermissionReasons
          ELSE platform[2] < BluetoothApiLevel /\ error' = error]_vars

\* An invocation reaches the success exit of connectToDevice in this step.
Connects(i) ==
    /\ ops[i].pc \in {"c_isConnected", "c_connectToDevice"}
    /\ ops'[i].pc = "done" /\ ops'[i].ok

\* C23: connectedDevice holds one device or none; a connectToDevice that
\* succeeds while another device is the session makes its own device the
\* session, and neither it nor any gated invocation issues a disconnect: the
\* disconnect invocation, the subscription and the subscribed handles are as
\* they were.
C23_ConnectReplacesSession ==
    [][/\ connectedDevice' \in Devices \cup {Null}
       /\ \A i \in Slots :
             /\ ~Has(ops'[i].trace, "disconnect")
             /\ Connects(i) =>
                   /\ connectedDevice' = ops[i].dev
                   /\ dsc' = dsc /\ sub' = sub /\ live' = live]_vars

\* A connectToDevice(B) has returned, and the log shows the adoption of
\* another device right before B's: no disconnect emptied the log in between.
C23_Witness ==
    \E i \in Slots :
        /\ ops[i].kind = "connect" /\ ops[i].pc = "done" /\ ops[i].ok
        /\ connectedDevice = ops[i].dev
        /\ LastIs("Conectado a", ops[i].dev)
        /\ Len(messages) >= 2
        /\ LET m == messages[Len(messages) - 1]
           IN  /\ m.type = "system" /\ m.content[1] \in Adoptions
               /\ m.content[2] # NameOf(ops[i].dev)
        /\ sub \notin {Null, ops[i].dev} /\ sub \in live

\* C24: mp4Device, once set, is never cleared; it changes only in the step in
\* which a findAndConnectMP4 run takes the answer of a listing call, and then
\* to the device that run selected, whose name starts with the prefix.
C24_TargetNeverCleared ==
    [][/\ mp4Device # Null => mp4Device' # Null
       /\ mp4Device' # mp4Device =>
             /\ Named(<<mp4Device'>>) = "MP4"
             /\ \E i \in Slots :
                   /\ ops[i].kind = "fac" /\ ops[i].pc \in {"f_bonded", "f_discovery"}
                   /\ ops'[i].dev = mp4Device']_vars

\* A disconnect of the target device has succeeded and the target is still set.
C24_Witness ==
    /\ dsc.pc = "done" /\ dsc.answer = "resolved"
    /\ dsc.dev # Null /\ mp4Device = dsc.dev
    /\ connectedDevice = Null

\* The findAndConnectMP4 invocations in flight.
Finding == {i \in Slots : ops[i].kind = "fac" /\ InFlight(ops[i])}

\* C25: the guards of the application component keep findAndConnectMP4
\* serialized: two invocations of it are never in flight at the same time, the
\* permission phase of the run started at mount included.
C25_AsStated == Cardinality(Finding) <= 1

\* What the guards do exclude: a findAndConnectMP4 starts beside another only
\* while that one waits in its permission gate, where no flag is set yet.
OverlapOnlyAtGate ==
    [][\A i, j \in Slots :
          (j \in Finding /\ ops[i].kind # "fac" /\ ops'[i].kind = "fac") =>
             ops[j].pc = "f_permissions" /\ NoFlag]_vars

\* The name of d is there and begins with the letters M, P, 4 in upper case.
HasPrefix(d) ==
    LET n == NameOf(d)
    IN  n # <<>> /\ Len(n) >= 3 /\ n[1] = "M" /\ n[2] = "P" /\ n[3] = "4"

\* C26: the device a findAndConnectMP4 run selects is the earliest element of
\* the list it was answered with (the bonded list, else the discovery result)
\* whose name is there and starts with the prefix, case-sensitively; while it
\* has selected none (so too as it goes on to discovery) the list holds no such
\* element, and the selection is the target device.
C26_FirstMatchWins ==
    \A i \in Slots :
        LET s == ops[i]
        IN  s.kind = "fac" =>
               /\ s.dev = Null => \A k \in 1..Len(s.list) : ~HasPrefix(s.list[k])
               /\ s.dev # Null =>
                     /\ HasPrefix(s.dev)
                     /\ mp4Device = s.dev
                     /\ \E k \in 1..Len(s.list) :
                           /\ s.list[k] = s.dev
                           /\ \A j \in 1..(k - 1) : ~HasPrefix(s.list[j])

\* Discovery answered with two different devices named with the prefix, and
\* the run selected the first.
C26_Witness ==
    \E i \in Slots :
        LET s == ops[i]
        IN  /\ s.kind = "fac" /\ Has(s.trace, "startDiscovery")
            /\ Len(s.list) = 2 /\ s.list[1] # s.list[2]
            /\ HasPrefix(s.list[1]) /\ HasPrefix(s.list[2])
            /\ s.dev = s.list[1]

\* C27: when every call a findAndConnectMP4 run awaits completes, the run
\* exits, and isScanning, isPairing and isConnecting are all false again.
C27_Terminates ==
    /\ \A i \in Slots : (i \in Finding) ~> (ops[i].pc = "done")
    /\ (Finding # {}) ~> NoFlag

\* A run that went through discovery, pairing and connecting has exited and
\* no flag is set.
C27_Witness ==
    \E i \in Slots :
        /\ ops[i].kind = "fac" /\ ops[i].pc = "done"
        /\ Has(ops[i].trace, "startDiscovery")
        /\ Has(ops[i].trace, "pairDevice")
        /\ Has(ops[i].trace, "connectToDevice")
        /\ NoFlag

\* A call of kind on d beginning in the current render.
Begin(kind, d) == [h |-> Hook, s |-> Start(kind, d)]

\* The gated and the ungated variant take the same step from the current
\* state, whatever the adapter answers: for the calls that may begin now, ...
SameEntries ==
    /\ FacEntry(Begin("fac", Null)) = UngatedFacEntry(Begin("fac", Null))
    /\ \A d \in Devices :
          /\ PairEntry(Begin("pair", d)) = UngatedPairEntry(Begin("pair", d))
          /\ ConnectEntry(Begin("connect", d)) = UngatedConnectEntry(Begin("connect", d))
    /\ \A data \in Data : SendEntry(Hook, data) = UngatedSendEntry(Hook, data)
    /\ DisconnectEntry(Hook) = UngatedDisconnectEntry(Hook)
    /\ clearMessages(Hook) = UngatedClearMessages(Hook)

\* ... for the gated invocation r where it is suspended, ...
SameAnswers(r) ==
    /\ r.s.pc = "f_bonded" =>
          /\ \A paired \in DeviceLists : FacBonded(r, paired) = UngatedFacBonded(r, paired)
          /\ \A e \in Rejections("getBondedDevices") : FacCatch(r, e) = UngatedFacCatch(r, e)
    /\ r.s.pc = "f_enable" =>
          /\ \A enabled \in BOOLEAN : FacEnabled(r, enabled) = UngatedFacEnabled(r, enabled)
          /\ \A e \in Rejections("requestBluetoothEnabled") :
                FacCatch(r, e) = UngatedFacCatch(r, e)
    /\ r.s.pc = "f_discovery" =>
          /\ \A discovered \in DeviceLists :
                FacDiscovered(r, discovered) = UngatedFacDiscovered(r, discovered)
          /\ \A e \in Rejections("startDiscovery") : FacCatch(r, e) = UngatedFacCatch(r, e)
    /\ r.s.pc = "p_pairDevice" =>
          /\ PairReturn(r) = UngatedPairReturn(r)
          /\ \A e \in Rejections("pairDevice") : PairCatch(r, e) = UngatedPairCatch(r, e)
    /\ r.s.pc = "c_isConnected" =>
          /\ \A b \in BOOLEAN : ConnectChecked(r, b) = UngatedConnectChecked(r, b)
          /\ \A e \in Rejections("isConnected") : ConnectCatch(r, e) = UngatedConnectCatch(r, e)
    /\ r.s.pc = "c_connectToDevice" =>
          /\ ConnectAdopt(r, r.s.dev, "Conectado a")
                = UngatedConnectAdopt(r, r.s.dev, "Conectado a")
          /\ \A e \in Rejections("connectToDevice") :
                ConnectCatch(r, e) = UngatedConnectCatch(r, e)

\* ... and for the sendData and the disconnect in flight.
SameStreams ==
    /\ snd.pc = "write" =>
          /\ SendReturn(Hook, snd) = UngatedSendReturn(Hook, snd)
          /\ \A e \in Rejections("write") : SendCatch(Hook, snd, e) = UngatedSendCatch(Hook, snd, e)
    /\ dsc.pc = "disconnect" =>
          /\ DisconnectReturn(Hook, dsc) = UngatedDisconnectReturn(Hook, dsc)
          /\ \A e \in Rejections("disconnect") :
                DisconnectCatch(Hook, dsc, e) = UngatedDisconnectCatch(Hook, dsc, e)

\* C28: with the permissions granted (permissionsGranted true as a call begins,
\* so in the closure of the invocation), the gated and the ungated variant of
\* pairDevice, connectToDevice, findAndConnectMP4, disconnect, sendData and
\* clearMessages take the same step on every answer of the adapter: the same
\* calls issued, the same result or error, the same flags, session, target
\* device, error and log.
C28_VariantsAgree ==
    /\ permissionsGranted => SameEntries
    /\ \A i \in Slots : ops[i].pg => SameAnswers(Run(i))
    /\ SameStreams

\* A findAndConnectMP4 begun with the permissions granted has discovered,
\* paired and connected.
C28_Witness ==
    \E i \in Slots :
        /\ ops[i].kind = "fac" /\ ops[i].pg
        /\ ops[i].pc = "done" /\ ops[i].ok
        /\ Has(ops[i].trace, "pairDevice")
        /\ Has(ops[i].trace, "connectToDevice")

\* A findAndConnectMP4 run has failed after its pairing succeeded: its connect
\* step failed.
ConnectFailedAfterPair(s) == FailedRun(s) /\ Has(s.trace, "Emparejado con")

\* What the connect step failed with: the value isConnected or connectToDevice
\* rejected with, or the error of its permission gate.
ConnectFailure(s) ==
    LET tr == s.trace
    IN  \/ /\ RejectedCall(tr) \in {"isConnected", "connectToDevice"}
           /\ s.thrown \in Rejections(RejectedCall(tr))
           /\ tr[Len(tr)] = Rejected(s.thrown)
        \/ tr[Len(tr)] = "denied" /\ s.thrown = PermConnectError

\* C29, as stated: such a run rejects with the error of connect and exits with
\* the target device set to the discovered device, no session, the three flags
\* false and the failure in the last-error slot.
C29_AsStated ==
    \A i \in Slots :
        LET s == ops[i]
        IN  ConnectFailedAfterPair(s) =>
               /\ ConnectFailure(s)
               /\ mp4Device = s.dev
               /\ connectedDevice = Null
               /\ NoFlag
               /\ error \in {MessageOf(s.thrown, "Error al conectar"),
                              MessageOf(s.thrown, "Error desconocido al buscar MP4")}

\* C29, amended: such a run rejects with the error of connect and exits with
\* the target device set to the discovered device, isScanning and isConnecting
\* false, and the message of the error in the last-error slot (the fallback
\* text of findAndConnectMP4 when the value is no Error); it has adopted no
\* session and leaves the one there was, and isPairing is false unless another
\* gated invocation is in flight.
C29_ConnectFailsAfterPair ==
    \A i \in Slots :
        LET s == ops[i]
        IN  ConnectFailedAfterPair(s) =>
               /\ Has(s.trace, "discovered:MP4")
               /\ At(s.trace, "pairDevice") < At(s.trace, "Emparejado con")
               /\ ConnectFailure(s)
               /\ mp4Device = s.dev /\ HasPrefix(s.dev)
               /\ Count(s.trace, Adoptions) = 0
               /\ ~isScanning /\ ~isConnecting
               /\ ~Others(i) => ~isPairing
               /\ error = MessageOf(s.thrown, "Error desconocido al buscar MP4")

\* The adapter rejected the connect of a discovered and paired device while
\* nothing else was in flight and there was no session.
C29_Witness ==
    \E i \in Slots :
        /\ ConnectFailedAfterPair(ops[i]) /\ ~Others(i)
        /\ RejectedCall(ops[i].trace) = "connectToDevice"
        /\ connectedDevice = Null /\ NoFlag
        /\ mp4Device = ops[i].dev

\* C30: connectedDevice goes from a device to none only in the step in which
\* the disconnect of the handle resolved; a gated invocation that fails, a
\* sendData that fails, a disconnect that fails, clearMessages and inbound data
\* leave connectedDevice as it was, and a disconnect that fails leaves the log
\* as it was too.
C30_SessionEndsByDisconnectOnly ==
    [][/\ (connectedDevice # Null /\ connectedDevice' = Null) =>
             /\ dsc.pc = "disconnect"
             /\ dsc'.pc = "done" /\ dsc'.answer = "resolved"
       /\ \A i \in Slots :
             (ops[i].pc # "done" /\ ops'[i].pc = "done" /\ ~ops'[i].ok) =>
                connectedDevice' = connectedDevice
       /\ (snd.pc # "done" /\ snd'.pc = "done" /\ ~snd'.ok) =>
             connectedDevice' = connectedDevice
       /\ (dsc.pc = "disconnect" /\ dsc'.answer = "rejected") =>
             connectedDevice' = connectedDevice /\ messages' = messages
       /\ (messages # <<>> /\ messages' = <<>> /\ dsc' = dsc) =>
             connectedDevice' = connectedDevice
       /\ Len(inbound') > Len(inbound) => connectedDevice' = connectedDevice]_vars

\* The disconnect of the handle was rejected: the session and a log that is
\* not empty are still there.
C30_Witness ==
    /\ dsc.pc = "done" /\ dsc.answer = "rejected"
    /\ connectedDevice # Null /\ connectedDevice = dsc.dev
    /\ messages # <<>>

IsStreamEntry(m) == m.type \in {"sent", "received"}

\* The Sent and Received entries of the log, in order.
StreamLog == SelectSeq(messages, IsStreamEntry)

\* C31: while there is no session (so from a successful disconnect until a
\* later connect succeeds) no Sent or Received entry is appended to the log,
\* also when a sendData was awaiting its write or data was pending as the
\* disconnect ran.
C31_AsStated ==
    [][(connectedDevice = Null /\ connectedDevice' = Null) =>
          Len(StreamLog') <= Len(StreamLog)]_vars

\* Where such an entry comes from: a write that resolves for a sendData begun
\* before the session ended, or data delivered to a subscription the effect on
\* [connectedDevice] has not removed yet.
LateStreamEntries ==
    [][(connectedDevice = Null /\ connectedDevice' = Null
           /\ Len(StreamLog') > Len(StreamLog)) =>
          \/ snd.pc = "write" /\ snd.dev # Null /\ snd'.answer = "resolved"
          \/ live # {} /\ sub # Null /\ Len(inbound') > Len(inbound)]_vars

====
